---- MODULE Spec2Model ----
(***************************************************************************)
(* Model of the Mowi Azure Function app: the record normaliser             *)
(* (df_to_records), the JSON formatter (json.dumps with DateTimeEncoder),  *)
(* the provider client (mowi_finance) and the six HTTP handlers of         *)
(* function_app.py.                                                        *)
(***************************************************************************)
EXTENDS Integers, Sequences, FiniteSets, TLC

VARIABLES
    \* ---- request handlers (one slot per request being handled) ----
    pc,         \* position of each handler invocation
    endpoint,   \* the function the request was routed to
    param,      \* req.params.get("days"): absent, or the raw text
    days,       \* the handler's local variable `days`
    calls,      \* provider calls made so far by this invocation, in order
    fetched,    \* what each successful provider call returned
    norm,       \* the payload after df_to_records
    resp,       \* the HttpResponse objects returned for this invocation
    \* ---- df_to_records / json.dumps / json.loads applied to one table ----
    tbl,        \* the DataFrame under conversion
    stage,      \* how far the conversion got
    recs,       \* result of df_to_records(tbl)
    body,       \* result of json.dumps(recs, cls=DateTimeEncoder)
    parsed      \* result of json.loads(body)

hvars == <<pc, endpoint, param, days, calls, fetched, norm, resp>>
rvars == <<tbl, stage, recs, body, parsed>>
vars == <<pc, endpoint, param, days, calls, fetched, norm, resp,
          tbl, stage, recs, body, parsed>>

(***************************************************************************)
(* Bounds of the model.                                                    *)
(***************************************************************************)
NumRequests == 2    \* requests handled concurrently
MaxRows == 2        \* rows of a table under conversion
MaxCols == 2        \* columns of a table under conversion

Requests == 1..NumRequests

Range(s) == {s[i] : i \in DOMAIN s}

SeqsUpTo(S, n) == UNION {[1..k -> S] : k \in 0..n}

(***************************************************************************)
(* Python values.  Every value carries its type and its content as text,   *)
(* so that str() and isoformat() are real conversions: str(1) and "1" are  *)
(* different values with the same text, and a Timestamp prints differently *)
(* under str() and under isoformat().                                      *)
(***************************************************************************)
PyStr(s) == [t |-> "str", v |-> s]
PyInt(s) == [t |-> "int", v |-> s]
PyFloat(s) == [t |-> "float", v |-> s]
Timestamp(d) == [t |-> "Timestamp", v |-> d]    \* pd.Timestamp at midnight
PyDate(d) == [t |-> "date", v |-> d]            \* datetime.date
Period(p) == [t |-> "Period", v |-> p]          \* pd.Period: not a datetime
None == [t |-> "NoneType", v |-> "None"]

Ok(x) == [ok |-> TRUE, val |-> x]
Raise(kind, msg) == [ok |-> FALSE, kind |-> kind, msg |-> msg]

\* isinstance(x, (pd.Timestamp, datetime.datetime, datetime.date))
IsDateLike(x) == x.t \in {"Timestamp", "datetime", "date"}

\* x.isoformat()
isoformat(x) ==
    IF x.t = "date" THEN x.v ELSE x.v \o "T00:00:00"

\* str(x)
str(x) ==
    IF x.t \in {"Timestamp", "datetime"} THEN x.v \o " 00:00:00" ELSE x.v

(***************************************************************************)
(* DataFrames: an index (with an optional name), column labels and rows.   *)
(***************************************************************************)
DataFrame(name, index, columns, data) ==
    [t |-> "DataFrame", name |-> name, index |-> index,
     columns |-> columns, data |-> data]

\* The cell of row i, column j: a number that tells the rows and columns apart.
Cell(i, j) == PyFloat(ToString(i) \o "." \o ToString(j))

\* df.reset_index(): the index becomes column 0, named after the index, or
\* "index" ("level_0" when "index" is taken); inserting a label the frame
\* already has raises ValueError.
\* (variant: reset_index(drop=True), which discards the index)
ResetIndexDropsIndex(df) ==
    Ok([columns |-> df.columns, data |-> df.data])

reset_index(df) ==
    LET default == IF PyStr("index") \in Range(df.columns)
                   THEN PyStr("level_0") ELSE PyStr("index")
        name == IF df.name = None THEN default ELSE df.name
    IN  IF name \in Range(df.columns)
        THEN Raise("ValueError", "cannot insert " \o str(name) \o ", already exists")
        ELSE Ok([columns |-> <<name>> \o df.columns,
                 data |-> [i \in DOMAIN df.index |-> <<df.index[i]>> \o df.data[i]]])

\* new_cols[col] for one column label
\* (variant: str() for every label, dates included)
ColumnNameStr(col) == str(col)

ColumnName(col) ==
    IF IsDateLike(col) THEN isoformat(col) ELSE str(col)

\* df.rename(columns=new_cols)
rename(frame) ==
    [frame EXCEPT !.columns = [j \in DOMAIN frame.columns |-> ColumnName(frame.columns[j])]]

\* df.to_dict(orient="records"): one dict per row, in row order; of two
\* columns with the same name the later one wins.
\* (variant: the rows taken last to first)
ToDictRecordsReversed(frame) ==
    LET n == Len(frame.data)
    IN  [i \in 1..n |->
            [k \in Range(frame.columns) |->
                LET j == CHOOSE m \in DOMAIN frame.columns :
                            /\ frame.columns[m] = k
                            /\ \A m2 \in DOMAIN frame.columns :
                                  frame.columns[m2] = k => m2 <= m
                IN  frame.data[n + 1 - i][j]]]

to_dict_records(frame) ==
    [i \in DOMAIN frame.data |->
        [k \in Range(frame.columns) |->
            LET j == CHOOSE m \in DOMAIN frame.columns :
                        /\ frame.columns[m] = k
                        /\ \A m2 \in DOMAIN frame.columns :
                              frame.columns[m2] = k => m2 <= m
            IN  frame.data[i][j]]]

df_to_records(df) ==
    IF df.t = "NoneType"
    THEN Raise("AttributeError", "'NoneType' object has no attribute 'reset_index'")
    ELSE LET r == reset_index(df)
         IN  IF ~r.ok THEN r ELSE Ok(to_dict_records(rename(r.val)))

(***************************************************************************)
(* JSON.  A JSON scalar is a string, a number or null; objects are         *)
(* functions from key strings, arrays are sequences.                       *)
(***************************************************************************)
JString(s) == [j |-> "string", v |-> s]
JNumber(s) == [j |-> "number", v |-> s]
JNull == [j |-> "null", v |-> "null"]

\* DateTimeEncoder.default(obj)
\* (variant: str() in place of isoformat())
DefaultStr(obj) ==
    IF obj.t \in {"date", "datetime", "Timestamp"}
    THEN Ok(JString(str(obj)))
    ELSE Raise("TypeError", "Object of type " \o obj.t \o " is not JSON serializable")

DateTimeEncoder_default(obj) ==
    IF obj.t \in {"date", "datetime", "Timestamp"}
    THEN Ok(JString(isoformat(obj)))
    ELSE Raise("TypeError", "Object of type " \o obj.t \o " is not JSON serializable")

\* json.dumps of one scalar: the encoder's own types, else default()
EncodeValue(x) ==
    CASE x.t = "str" -> Ok(JString(x.v))
      [] x.t \in {"int", "float"} -> Ok(JNumber(x.v))
      [] x.t = "NoneType" -> Ok(JNull)
      [] OTHER -> DateTimeEncoder_default(x)

\* json.dumps(records, cls=DateTimeEncoder) for a list of flat dicts
EncodeRecords(records) ==
    LET bad == {<<i, k>> \in (DOMAIN records) \X UNION {DOMAIN records[i] : i \in DOMAIN records} :
                   ~EncodeValue(records[i][k]).ok}
    IN  IF bad # {}
        THEN LET p == CHOOSE q \in bad : \A q2 \in bad : q[1] <= q2[1]
             IN  EncodeValue(records[p[1]][p[2]])
        ELSE Ok([i \in DOMAIN records |->
                    [k \in DOMAIN records[i] |-> EncodeValue(records[i][k]).val]])

\* json.loads of one scalar
DecodeValue(x) ==
    CASE x.j = "string" -> PyStr(x.v)
      [] x.j = "number" -> PyFloat(x.v)
      [] OTHER -> None

\* json.loads(body) for an array of flat objects
DecodeRecords(b) ==
    [i \in DOMAIN b |-> [k \in DOMAIN b[i] |-> DecodeValue(b[i][k])]]

(***************************************************************************)
(* Tables the conversion is applied to.                                    *)
(***************************************************************************)
IndexNames == {None, PyStr("Date"), PyStr("Open")}

Labels == {PyStr("Open"), PyStr("1"), PyInt("1"), PyStr("index"),
           Timestamp("2024-01-09"), PyDate("2024-01-09")}

IndexValues == {Timestamp("2024-01-09"), PyDate("2024-01-05"),
                PyStr("Total Revenue"), Period("2024Q1")}

Tables ==
    {DataFrame(n, ix, cs, [i \in DOMAIN ix |-> [j \in DOMAIN cs |-> Cell(i, j)]]) :
        n \in IndexNames, ix \in SeqsUpTo(IndexValues, MaxRows),
        cs \in SeqsUpTo(Labels, MaxCols)}

EmptyFrame == DataFrame(None, <<>>, <<>>, <<>>)

(***************************************************************************)
(* The conversion pipeline on one table: toRecords, toJson, parse.         *)
(***************************************************************************)
Normalize ==
    /\ stage = "table"
    /\ recs' = df_to_records(tbl)
    /\ stage' = IF recs'.ok THEN "records" ELSE "failed"
    /\ UNCHANGED <<tbl, body, parsed>>
    /\ UNCHANGED hvars

Serialize ==
    /\ stage = "records"
    /\ body' = EncodeRecords(recs.val)
    /\ stage' = IF body'.ok THEN "json" ELSE "failed"
    /\ UNCHANGED <<tbl, recs, parsed>>
    /\ UNCHANGED hvars

Parse ==
    /\ stage = "json"
    /\ parsed' = DecodeRecords(body.val)
    /\ stage' = "parsed"
    /\ UNCHANGED <<tbl, recs, body>>
    /\ UNCHANGED hvars

(***************************************************************************)
(* Query parameters and int().                                             *)
(***************************************************************************)
Absent == [present |-> FALSE, text |-> <<>>]
Text(cs) == [present |-> TRUE, text |-> cs]

\* The values of the 'days' query parameter the requests carry:
\* none, "", "0", " 2" and "abc".
DaysParams == {Absent, Text(<<>>), Text(<<"0">>), Text(<<" ", "2">>),
               Text(<<"a", "b", "c">>)}

Digits == {"0", "1", "2", "3", "4", "5", "6", "7", "8", "9"}

DigitValue(c) ==
    CASE c = "0" -> 0 [] c = "1" -> 1 [] c = "2" -> 2 [] c = "3" -> 3
      [] c = "4" -> 4 [] c = "5" -> 5 [] c = "6" -> 6 [] c = "7" -> 7
      [] c = "8" -> 8 [] OTHER -> 9

RECURSIVE Strip(_)
Strip(cs) ==
    IF cs = <<>> THEN cs
    ELSE IF Head(cs) = " " THEN Strip(Tail(cs))
    ELSE IF cs[Len(cs)] = " " THEN Strip(SubSeq(cs, 1, Len(cs) - 1))
    ELSE cs

RECURSIVE DigitsValue(_)
DigitsValue(cs) ==
    IF cs = <<>> THEN 0
    ELSE 10 * DigitsValue(SubSeq(cs, 1, Len(cs) - 1)) + DigitValue(cs[Len(cs)])

\* int(text) for a str: surrounding blanks are ignored, a sign is allowed,
\* what remains must be one or more digits; anything else is a ValueError.
int(cs) ==
    LET s == Strip(cs)
        signed == s # <<>> /\ Head(s) \in {"+", "-"}
        ds == IF signed THEN Tail(s) ELSE s
    IN  IF ds # <<>> /\ \A i \in DOMAIN ds : ds[i] \in Digits
        THEN Ok(IF signed /\ Head(s) = "-" THEN 0 - DigitsValue(ds) ELSE DigitsValue(ds))
        ELSE Raise("ValueError", "invalid literal for int() with base 10")

DefaultDays == 30

\* GetMowiData: days = int(days_param) if days_param else 30,
\* and 30 again on ValueError
\* (variant: no fallback on an empty or malformed text)
DataDaysStrict(p) ==
    IF ~p.present THEN Ok(DefaultDays) ELSE int(p.text)

DataDays(p) ==
    IF ~p.present \/ p.text = <<>>
    THEN Ok(DefaultDays)
    ELSE IF int(p.text).ok THEN int(p.text) ELSE Ok(DefaultDays)

\* GetMowiHistory: days = int(req.params.get("days", 30)) inside the try
\* (variant: the fallback of GetMowiData)
HistoryDaysLenient(p) ==
    IF ~p.present \/ ~int(p.text).ok THEN Ok(DefaultDays) ELSE int(p.text)

HistoryDays(p) ==
    IF ~p.present THEN Ok(DefaultDays) ELSE int(p.text)

(***************************************************************************)
(* The provider client (mowi_finance).  What the upstream source answers   *)
(* is not the program's to decide: each call either gets an answer from a  *)
(* small set or fails with one of the upstream client's exceptions.        *)
(***************************************************************************)
TICKER == "MOWI.OL"

\* exceptions of the upstream client: a malformed answer (a JSONDecodeError,
\* which is a ValueError) and an unreachable source
ProviderErrors ==
    {Raise("JSONDecodeError", "Expecting value: line 1 column 1 (char 0)"),
     Raise("ConnectionError", "Max retries exceeded")}

\* isinstance(e, ValueError)
IsValueError(kind) == kind \in {"ValueError", "JSONDecodeError"}

\* t.info: the upstream snapshot; a field may be missing
QuoteInfos ==
    {[k \in {"symbol", "regularMarketPrice", "currency"} |->
        CASE k = "symbol" -> PyStr("MOWI.OL")
          [] k = "regularMarketPrice" -> PyFloat("201.5")
          [] OTHER -> PyStr("NOK")]}

InfoGet(info, k) == IF k \in DOMAIN info THEN info[k] ELSE None

get_mowi_data(info) ==
    [symbol |-> InfoGet(info, "symbol"),
     last_price |-> InfoGet(info, "regularMarketPrice"),
     previous_close |-> InfoGet(info, "previousClose"),
     open |-> InfoGet(info, "open"),
     day_high |-> InfoGet(info, "dayHigh"),
     day_low |-> InfoGet(info, "dayLow"),
     volume |-> InfoGet(info, "volume"),
     market_cap |-> InfoGet(info, "marketCap"),
     currency |-> InfoGet(info, "currency")]

\* the upstream price series, oldest first: `age` is today minus the row's date
HistorySeries ==
    {<<[age |-> 5, date |-> "2024-01-05", close |-> "199.0"],
       [age |-> 1, date |-> "2024-01-09", close |-> "201.5"]>>}

RECURSIVE SelectRows(_, _)
SelectRows(series, n) ==
    IF series = <<>> THEN <<>>
    ELSE IF Head(series).age >= 1 /\ Head(series).age <= n
         THEN <<Head(series)>> \o SelectRows(Tail(series), n)
         ELSE SelectRows(Tail(series), n)

\* get_mowi_history(days): the rows from start = today - days up to today
get_mowi_history(n, series) ==
    LET rows == SelectRows(series, n)
    IN  DataFrame(PyStr("Date"),
                  [i \in DOMAIN rows |-> Timestamp(rows[i].date)],
                  <<PyStr("Close")>>,
                  [i \in DOMAIN rows |-> <<PyFloat(rows[i].close)>>])

\* yf.Ticker(TICKER).actions
ActionsFrames ==
    {DataFrame(PyStr("Date"), <<>>, <<PyStr("Dividends")>>, <<>>),
     DataFrame(PyStr("Date"), <<Timestamp("2023-06-01")>>, <<PyStr("Dividends")>>,
               <<<<PyFloat("1.9")>>>>)}

\* t.financials, t.balance_sheet, t.cashflow: rows are line items, columns
\* are the period ends
StatementFrame == DataFrame(None, <<PyStr("Total Revenue")>>,
                            <<Timestamp("2023-12-31")>>, <<<<PyFloat("5500.0")>>>>)

FinancialSets ==
    {[s \in {"income_statement", "balance_sheet", "cashflow"} |-> EmptyFrame],
     [s \in {"income_statement", "balance_sheet", "cashflow"} |-> StatementFrame]}

\* yf.Ticker(TICKER).recommendations: a frame, a frame indexed by periods,
\* or None when the source has none
RecommendationFrames ==
    {None,
     DataFrame(None, <<PyInt("0")>>, <<PyStr("period")>>, <<<<PyStr("0m")>>>>),
     DataFrame(PyStr("period"), <<Period("2024Q1")>>, <<PyStr("strongBuy")>>,
               <<<<PyInt("4")>>>>)}

\* what the upstream source can answer to each provider operation
Upstream(op) ==
    CASE op = "get_mowi_data" -> QuoteInfos
      [] op = "get_mowi_history" -> HistorySeries
      [] op = "get_mowi_actions" -> ActionsFrames
      [] op = "get_mowi_financials" -> FinancialSets
      [] OTHER -> RecommendationFrames

\* the value the provider operation returns for the upstream answer `up`
Provider(op, n, up) ==
    CASE op = "get_mowi_data" -> get_mowi_data(up)
      [] op = "get_mowi_history" -> get_mowi_history(n, up)
      [] OTHER -> up

(***************************************************************************)
(* The handlers.                                                           *)
(***************************************************************************)
Endpoints == {"GetMowiData", "GetMowiQuote", "GetMowiHistory", "GetMowiActions",
              "GetMowiFinancials", "GetMowiRecommendations"}

\* the provider operations a handler calls, in the order of its statements
\* (variant: GetMowiData fetching actions before history)
ProviderCallsSwapped(e) ==
    CASE e = "GetMowiData" ->
            <<"get_mowi_data", "get_mowi_actions", "get_mowi_history",
              "get_mowi_financials", "get_mowi_recommendations">>
      [] e = "GetMowiQuote" -> <<"get_mowi_data">>
      [] e = "GetMowiHistory" -> <<"get_mowi_history">>
      [] e = "GetMowiActions" -> <<"get_mowi_actions">>
      [] e = "GetMowiFinancials" -> <<"get_mowi_financials">>
      [] OTHER -> <<"get_mowi_recommendations">>

ProviderCalls(e) ==
    CASE e = "GetMowiData" ->
            <<"get_mowi_data", "get_mowi_history", "get_mowi_actions",
              "get_mowi_financials", "get_mowi_recommendations">>
      [] e = "GetMowiQuote" -> <<"get_mowi_data">>
      [] e = "GetMowiHistory" -> <<"get_mowi_history">>
      [] e = "GetMowiActions" -> <<"get_mowi_actions">>
      [] e = "GetMowiFinancials" -> <<"get_mowi_financials">>
      [] OTHER -> <<"get_mowi_recommendations">>

HttpResponse(b, status) ==
    [status_code |-> status, body |-> b, mimetype |-> "application/json"]

\* json.dumps({"error": msg})
ErrorBody(msg) == [k \in {"error"} |-> JString(msg)]

DaysMessage == "Parameter 'days' must be an integer."

\* the except clauses of handler e, for an exception raised inside its try:
\* GetMowiHistory answers a ValueError with 400, everything else is 500
\* (variant: a handler with the ValueError clause only)
ExceptOnlyValueError(e, exc) ==
    IF IsValueError(exc.kind)
    THEN <<HttpResponse(ErrorBody(DaysMessage), 400)>>
    ELSE <<>>

Except(e, exc) ==
    IF e = "GetMowiHistory" /\ IsValueError(exc.kind)
    THEN <<HttpResponse(ErrorBody(DaysMessage), 400)>>
    ELSE <<HttpResponse(ErrorBody(exc.msg), 500)>>

StatementOrder == <<"income_statement", "balance_sheet", "cashflow">>

\* the first failure of a sequence of results, in evaluation order
FirstRaise(rs) ==
    rs[CHOOSE i \in DOMAIN rs : ~rs[i].ok /\ \A k \in DOMAIN rs : ~rs[k].ok => i <= k]

AllOk(rs) == \A i \in DOMAIN rs : rs[i].ok

\* the payload a handler builds from what it fetched (df_to_records on every
\* frame, in the order the statements evaluate them)
BuildPayload(e, f) ==
    CASE e = "GetMowiQuote" -> Ok(f[1])
      [] e \in {"GetMowiHistory", "GetMowiActions", "GetMowiRecommendations"} ->
            df_to_records(f[1])
      [] e = "GetMowiFinancials" ->
            LET rs == [i \in 1..3 |-> df_to_records(f[1][StatementOrder[i]])]
            IN  IF AllOk(rs)
                THEN Ok([s \in Range(StatementOrder) |-> df_to_records(f[1][s]).val])
                ELSE FirstRaise(rs)
      [] OTHER ->
            LET rs == <<df_to_records(f[2]), df_to_records(f[3]),
                        df_to_records(f[4][StatementOrder[1]]),
                        df_to_records(f[4][StatementOrder[2]]),
                        df_to_records(f[4][StatementOrder[3]]),
                        df_to_records(f[5])>>
            IN  IF AllOk(rs)
                THEN Ok([quote |-> f[1],
                         history |-> rs[1].val,
                         actions |-> rs[2].val,
                         financials |-> [s \in Range(StatementOrder) |->
                                            df_to_records(f[4][s]).val],
                         recommendations |-> rs[6].val])
                ELSE FirstRaise(rs)

\* json.dumps of a flat dict
EncodeDict(d) ==
    LET bad == {k \in DOMAIN d : ~EncodeValue(d[k]).ok}
    IN  IF bad # {} THEN EncodeValue(d[CHOOSE k \in bad : TRUE])
        ELSE Ok([k \in DOMAIN d |-> EncodeValue(d[k]).val])

\* json.dumps(payload, cls=DateTimeEncoder) for the payload of handler e
Dumps(e, p) ==
    CASE e = "GetMowiQuote" -> EncodeDict(p)
      [] e \in {"GetMowiHistory", "GetMowiActions", "GetMowiRecommendations"} ->
            EncodeRecords(p)
      [] e = "GetMowiFinancials" ->
            LET rs == [i \in 1..3 |-> EncodeRecords(p[StatementOrder[i]])]
            IN  IF AllOk(rs)
                THEN Ok([s \in Range(StatementOrder) |-> EncodeRecords(p[s]).val])
                ELSE FirstRaise(rs)
      [] OTHER ->
            LET rs == <<EncodeDict(p.quote), EncodeRecords(p.history),
                        EncodeRecords(p.actions),
                        EncodeRecords(p.financials[StatementOrder[1]]),
                        EncodeRecords(p.financials[StatementOrder[2]]),
                        EncodeRecords(p.financials[StatementOrder[3]]),
                        EncodeRecords(p.recommendations)>>
            IN  IF AllOk(rs)
                THEN Ok([quote |-> rs[1].val,
                         history |-> rs[2].val,
                         actions |-> rs[3].val,
                         financials |-> [s \in Range(StatementOrder) |->
                                            EncodeRecords(p.financials[s]).val],
                         recommendations |-> rs[7].val])
                ELSE FirstRaise(rs)

\* the handler's local `days`: a local of invocation r
\* (variant: `days` as a module-level name, one for all invocations)
StoreDaysGlobal(r, n) == [q \in Requests |-> n]

StoreDays(r, n) == [days EXCEPT ![r] = n]

\* the host hands request r to its handler
Receive(r) ==
    /\ pc[r] = "idle"
    /\ \E e \in Endpoints, p \in DaysParams :
          /\ endpoint' = [endpoint EXCEPT ![r] = e]
          /\ param' = [param EXCEPT ![r] = p]
    /\ pc' = [pc EXCEPT ![r] = "parsing"]
    /\ calls' = [calls EXCEPT ![r] = <<>>]
    /\ fetched' = [fetched EXCEPT ![r] = <<>>]
    /\ norm' = [norm EXCEPT ![r] = <<>>]
    /\ resp' = [resp EXCEPT ![r] = <<>>]
    /\ UNCHANGED days
    /\ UNCHANGED rvars

\* parameter parsing: only GetMowiData and GetMowiHistory read 'days'
ParseParams(r) ==
    /\ pc[r] = "parsing"
    /\ LET d == CASE endpoint[r] = "GetMowiData" -> DataDays(param[r])
                  [] endpoint[r] = "GetMowiHistory" -> HistoryDays(param[r])
                  [] OTHER -> Ok(days[r])
       IN  IF d.ok
           THEN /\ days' = IF endpoint[r] \in {"GetMowiData", "GetMowiHistory"}
                           THEN StoreDays(r, d.val) ELSE days
                /\ pc' = [pc EXCEPT ![r] = "fetching"]
                /\ UNCHANGED resp
           ELSE /\ resp' = [resp EXCEPT ![r] = Except(endpoint[r], d)]
                /\ pc' = [pc EXCEPT ![r] = "done"]
                /\ UNCHANGED days
    /\ UNCHANGED <<endpoint, param, calls, fetched, norm>>
    /\ UNCHANGED rvars

CallRecord(op, n, up) ==
    [op |-> op, ticker |-> TICKER,
     args |-> IF op = "get_mowi_history" THEN <<n>> ELSE <<>>,
     up |-> up]

NextCall(r) == ProviderCalls(endpoint[r])[Len(calls[r]) + 1]

\* the next provider call of the handler returns
FetchReturns(r) ==
    /\ pc[r] = "fetching"
    /\ \E up \in Upstream(NextCall(r)) :
          /\ calls' = [calls EXCEPT ![r] = Append(@, CallRecord(NextCall(r), days[r], Ok(up)))]
          /\ fetched' = [fetched EXCEPT ![r] = Append(@, Provider(NextCall(r), days[r], up))]
    /\ pc' = [pc EXCEPT ![r] =
                IF Len(calls[r]) + 1 = Len(ProviderCalls(endpoint[r]))
                THEN "normalizing" ELSE "fetching"]
    /\ UNCHANGED <<endpoint, param, days, norm, resp>>
    /\ UNCHANGED rvars

\* the next provider call of the handler throws
FetchRaises(r) ==
    /\ pc[r] = "fetching"
    /\ \E exc \in ProviderErrors :
          /\ calls' = [calls EXCEPT ![r] = Append(@, CallRecord(NextCall(r), days[r], exc))]
          /\ resp' = [resp EXCEPT ![r] = Except(endpoint[r], exc)]
    /\ pc' = [pc EXCEPT ![r] = "done"]
    /\ UNCHANGED <<endpoint, param, days, fetched, norm>>
    /\ UNCHANGED rvars

\* df_to_records on what was fetched
NormalizeStep(r) ==
    /\ pc[r] = "normalizing"
    /\ LET p == BuildPayload(endpoint[r], fetched[r])
       IN  IF p.ok
           THEN /\ norm' = [norm EXCEPT ![r] = p.val]
                /\ pc' = [pc EXCEPT ![r] = "responding"]
                /\ UNCHANGED resp
           ELSE /\ resp' = [resp EXCEPT ![r] = Except(endpoint[r], p)]
                /\ pc' = [pc EXCEPT ![r] = "done"]
                /\ UNCHANGED norm
    /\ UNCHANGED <<endpoint, param, days, calls, fetched>>
    /\ UNCHANGED rvars

\* json.dumps and the 200 response
Respond(r) ==
    /\ pc[r] = "responding"
    /\ LET b == Dumps(endpoint[r], norm[r])
       IN  resp' = [resp EXCEPT ![r] =
                       IF b.ok THEN <<HttpResponse(b.val, 200)>>
                       ELSE Except(endpoint[r], b)]
    /\ pc' = [pc EXCEPT ![r] = "done"]
    /\ UNCHANGED <<endpoint, param, days, calls, fetched, norm>>
    /\ UNCHANGED rvars

\* the response is sent; everything of the request is discarded
Complete(r) ==
    /\ pc[r] = "done"
    /\ pc' = [pc EXCEPT ![r] = "idle"]
    /\ endpoint' = [endpoint EXCEPT ![r] = "none"]
    /\ param' = [param EXCEPT ![r] = Absent]
    /\ calls' = [calls EXCEPT ![r] = <<>>]
    /\ fetched' = [fetched EXCEPT ![r] = <<>>]
    /\ norm' = [norm EXCEPT ![r] = <<>>]
    /\ resp' = [resp EXCEPT ![r] = <<>>]
    /\ days' = [days EXCEPT ![r] = DefaultDays]
    /\ UNCHANGED rvars

Step(r) ==
    \/ Receive(r)
    \/ ParseParams(r)
    \/ FetchReturns(r)
    \/ FetchRaises(r)
    \/ NormalizeStep(r)
    \/ Respond(r)
    \/ Complete(r)

HandlersIdle ==
    /\ pc = [r \in Requests |-> "idle"]
    /\ endpoint = [r \in Requests |-> "none"]
    /\ param = [r \in Requests |-> Absent]
    /\ days = [r \in Requests |-> DefaultDays]
    /\ calls = [r \in Requests |-> <<>>]
    /\ fetched = [r \in Requests |-> <<>>]
    /\ norm = [r \in Requests |-> <<>>]
    /\ resp = [r \in Requests |-> <<>>]

PipelineOff ==
    /\ tbl = EmptyFrame
    /\ stage = "off"
    /\ recs = Ok(<<>>)
    /\ body = Ok(<<>>)
    /\ parsed = <<>>

Init == HandlersIdle /\ PipelineOff

\* one request at a time
Next == Step(1)

Spec == Init /\ [][Next]_vars

\* NumRequests requests handled concurrently, their steps interleaved
ConcNext == \E r \in Requests : Step(r)

ConcSpec == Init /\ [][ConcNext]_vars

RecordsInit ==
    /\ tbl \in Tables
    /\ stage = "table"
    /\ recs = Ok(<<>>)
    /\ body = Ok(<<>>)
    /\ parsed = <<>>
    /\ HandlersIdle

RecordsNext == Normalize \/ Serialize \/ Parse

RecordsSpec == RecordsInit /\ [][RecordsNext]_vars

(***************************************************************************)
(* Properties of the handlers.                                             *)
(***************************************************************************)
Last(s) == s[Len(s)]

Status(r) == resp[r][1].status_code

\* the texts among DaysParams that are no integer literal: "" and "abc"
UnparsableTexts == {<<>>, <<"a", "b", "c">>}

\* C1: for every endpoint and every exception a provider call raises, the
\* request whose provider call threw is answered with status 500 and the
\* body {"error": <the exception's message>}.
C1_ProviderThrowIs500 ==
    \A r \in Requests :
        (pc[r] = "done" /\ calls[r] # <<>> /\ ~Last(calls[r]).up.ok) =>
            resp[r] = <<HttpResponse(ErrorBody(Last(calls[r]).up.msg), 500)>>

\* C2: in GetMowiHistory a 'days' parameter that is present and is not an
\* integer literal is answered with status 400 and the body
\* {"error": "Parameter 'days' must be an integer."}, before any provider call.
C2_HistoryBadDaysIs400 ==
    \A r \in Requests :
        (/\ endpoint[r] = "GetMowiHistory"
         /\ param[r].present
         /\ param[r].text \in UnparsableTexts
         /\ pc[r] \notin {"idle", "parsing"}) =>
            /\ pc[r] = "done"
            /\ calls[r] = <<>>
            /\ resp[r] = <<[status_code |-> 400,
                            body |-> [error |-> JString("Parameter 'days' must be an integer.")],
                            mimetype |-> "application/json"]>>

C2_Witness ==
    \E r \in Requests :
        /\ endpoint[r] = "GetMowiHistory"
        /\ param[r] = Text(<<"a", "b", "c">>)
        /\ pc[r] = "done"
        /\ Status(r) = 400

\* the days GetMowiData is to use for each value of the parameter
ExpectedDataDays(p) ==
    IF ~p.present \/ p.text \in UnparsableTexts THEN 30
    ELSE IF p.text = <<"0">> THEN 0 ELSE 2

\* C3: in GetMowiData an absent, empty or non-integer 'days' means days = 30
\* and an integer n means n: that is the argument of get_mowi_history, which
\* is the call made right after a successful quote call; the request is
\* never answered with status 400.
C3_DataDaysDefault ==
    \A r \in Requests :
        endpoint[r] = "GetMowiData" =>
            /\ pc[r] \notin {"idle", "parsing"} => days[r] = ExpectedDataDays(param[r])
            /\ \A i \in DOMAIN calls[r] :
                  calls[r][i].op = "get_mowi_history" =>
                      calls[r][i].args = <<ExpectedDataDays(param[r])>>
            /\ pc[r] = "done" =>
                  /\ calls[r] # <<>>
                  /\ Status(r) # 400
                  /\ calls[r][1].up.ok =>
                        /\ Len(calls[r]) >= 2
                        /\ calls[r][2].op = "get_mowi_history"

C3_Witness ==
    \E r \in Requests :
        /\ endpoint[r] = "GetMowiData"
        /\ param[r] = Text(<<"a", "b", "c">>)
        /\ pc[r] = "done"
        /\ Status(r) = 200
        /\ calls[r][2].args = <<30>>

Rank(p) ==
    CASE p = "idle" -> 0 [] p = "parsing" -> 1 [] p = "fetching" -> 2
      [] p = "normalizing" -> 3 [] p = "responding" -> 4 [] OTHER -> 5

\* C7: a request passes through parsing, fetching, normalizing and
\* responding in that order and never back; no provider operation is called
\* twice; a request that is not finished can always take its next step; and
\* it ends with exactly one response, of status 200, 400 or 500.
C7_Lifecycle ==
    /\ [](\A r \in Requests :
            /\ pc[r] = "done" => Len(resp[r]) = 1 /\ Status(r) \in {200, 400, 500}
            /\ pc[r] # "done" => resp[r] = <<>>
            /\ pc[r] \notin {"idle", "done"} => ENABLED Step(r)
            /\ \A i, k \in DOMAIN calls[r] : i # k => calls[r][i].op # calls[r][k].op)
    /\ [][\A r \in Requests :
            pc'[r] # pc[r] =>
                \/ Rank(pc'[r]) > Rank(pc[r])
                \/ pc[r] = "done" /\ pc'[r] = "idle"]_vars

C7_Witness ==
    \E r \in Requests :
        /\ endpoint[r] = "GetMowiFinancials"
        /\ pc[r] = "done"
        /\ Status(r) = 200
        /\ Len(calls[r]) = 1

\* C9: status 400 is answered only by GetMowiHistory and only for a 'days'
\* parameter that is present and not an integer; a provider, normalization
\* or serialization failure is answered with status 500.
C9_Only400ForBadDays ==
    \A r \in Requests :
        pc[r] = "done" =>
            /\ Status(r) = 400 =>
                  /\ endpoint[r] = "GetMowiHistory"
                  /\ param[r].present
                  /\ param[r].text \in UnparsableTexts
            /\ (calls[r] # <<>> /\ Status(r) # 200) => Status(r) = 500

DataOrder == <<"get_mowi_data", "get_mowi_history", "get_mowi_actions",
               "get_mowi_financials", "get_mowi_recommendations">>

\* C10: a GetMowiData request calls quote, history, actions, financials,
\* recommendations in that order, each at most once; a call that throws is
\* the last one made and the answer is then status 500 with the error
\* envelope alone; status 200 is answered only after all five succeeded.
C10_DataCallOrder ==
    \A r \in Requests :
        endpoint[r] = "GetMowiData" =>
            /\ Len(calls[r]) <= 5
            /\ \A i \in DOMAIN calls[r] :
                  /\ calls[r][i].op = DataOrder[i]
                  /\ i < Len(calls[r]) => calls[r][i].up.ok
            /\ (calls[r] # <<>> /\ ~Last(calls[r]).up.ok) =>
                  /\ pc[r] = "done"
                  /\ resp[r] = <<[status_code |-> 500,
                                  body |-> [error |-> JString(Last(calls[r]).up.msg)],
                                  mimetype |-> "application/json"]>>
            /\ (pc[r] = "done" /\ Status(r) = 200) =>
                  /\ Len(calls[r]) = 5
                  /\ \A i \in DOMAIN calls[r] : calls[r][i].up.ok

C10_Witness ==
    \E r \in Requests :
        /\ endpoint[r] = "GetMowiData"
        /\ pc[r] = "done"
        /\ Len(calls[r]) = 3
        /\ ~calls[r][3].up.ok
        /\ Status(r) = 500

(***************************************************************************)
(* Isolation of concurrent requests.                                       *)
(***************************************************************************)
\* the response of handler e to parameter p when it runs alone and the
\* upstream source answers its calls with ups, in order
AloneResponse(e, p, ups) ==
    LET d == CASE e = "GetMowiData" -> DataDays(p)
               [] e = "GetMowiHistory" -> HistoryDays(p)
               [] OTHER -> Ok(DefaultDays)
    IN  IF ~d.ok THEN Except(e, d)
        ELSE IF ~AllOk(ups) THEN Except(e, FirstRaise(ups))
        ELSE LET f == [i \in DOMAIN ups |-> Provider(ProviderCalls(e)[i], d.val, ups[i].val)]
                 pl == BuildPayload(e, f)
             IN  IF ~pl.ok THEN Except(e, pl)
                 ELSE LET b == Dumps(e, pl.val)
                      IN  IF b.ok THEN <<HttpResponse(b.val, 200)>> ELSE Except(e, b)

\* C8: whatever the interleaving with the other requests, a finished
\* request has the response it would get if handled alone against the same
\* provider answers, and its provider calls carry its own arguments.
C8_Isolation ==
    \A r \in Requests :
        pc[r] = "done" =>
            /\ resp[r] = AloneResponse(endpoint[r], param[r],
                                       [i \in DOMAIN calls[r] |-> calls[r][i].up])
            /\ \A i \in DOMAIN calls[r] :
                  /\ calls[r][i].ticker = "MOWI.OL"
                  /\ calls[r][i].op = "get_mowi_history" =>
                        calls[r][i].args =
                            <<IF endpoint[r] = "GetMowiData" THEN DataDays(param[r]).val
                              ELSE HistoryDays(param[r]).val>>

C8_Witness ==
    \E r, q \in Requests :
        /\ r # q
        /\ pc[r] = "done" /\ pc[q] = "done"
        /\ endpoint[r] = "GetMowiHistory" /\ endpoint[q] = "GetMowiData"
        /\ param[r] = Text(<<" ", "2">>) /\ param[q] = Absent
        /\ Status(r) = 200 /\ Status(q) = 500
        /\ Len(resp[r][1].body) = 1

(***************************************************************************)
(* Properties of the conversion pipeline.                                  *)
(***************************************************************************)
\* a table is well formed when its index label is not also a column label,
\* which is when reset_index can insert the index as a column
IndexLabel ==
    IF tbl.name # None THEN tbl.name
    ELSE IF PyStr("index") \in Range(tbl.columns) THEN PyStr("level_0")
    ELSE PyStr("index")

WellFormed == IndexLabel \notin Range(tbl.columns)

\* the text a label has as a field name: ISO-8601 for a date or a
\* timestamp, the plain text of anything else
FieldName(c) ==
    CASE c.t = "Timestamp" -> c.v \o "T00:00:00"
      [] OTHER -> c.v

\* column j is the last column with its field name
LastOfItsName(j) ==
    \A m \in DOMAIN tbl.columns :
        FieldName(tbl.columns[m]) = FieldName(tbl.columns[j]) => m <= j

\* no column has the field name of the index
IndexVisible ==
    \A m \in DOMAIN tbl.columns : FieldName(tbl.columns[m]) # FieldName(IndexLabel)

\* C4: for a well-formed table df_to_records returns, without an error, as
\* many records as the table has rows, and record i holds the index value
\* and the cells of row i; an empty table gives the empty sequence.
C4_RowsPreserved ==
    (stage # "table" /\ WellFormed) =>
        /\ recs.ok
        /\ Len(recs.val) = Len(tbl.index)
        /\ tbl.index = <<>> => recs.val = <<>>
        /\ \A i \in DOMAIN tbl.index :
              /\ IndexVisible => recs.val[i][FieldName(IndexLabel)] = tbl.index[i]
              /\ \A j \in DOMAIN tbl.columns :
                    LastOfItsName(j) =>
                        recs.val[i][FieldName(tbl.columns[j])] = tbl.data[i][j]

C4_Witness ==
    /\ stage = "records"
    /\ Len(tbl.index) = 2
    /\ Len(tbl.columns) = 2
    /\ Len(recs.val) = 2
    /\ recs.val[1] # recs.val[2]

IsDate(x) == x.t \in {"Timestamp", "date"}

\* C5: in the JSON body every value is a JSON string, number or null; a
\* date or timestamp that was an index value is the JSON string of its
\* ISO-8601 text, and one that was a column label is the field named by its
\* ISO-8601 text; no field is named by another text of a label.
C5_DatesAreIso ==
    stage \in {"json", "parsed"} =>
        \A i \in DOMAIN body.val :
            /\ \A k \in DOMAIN body.val[i] :
                  body.val[i][k].j \in {"string", "number", "null"}
            /\ (IndexVisible /\ IsDate(tbl.index[i])) =>
                  body.val[i][FieldName(IndexLabel)] =
                      [j |-> "string", v |-> FieldName(tbl.index[i])]
            /\ \A c \in Range(tbl.columns) :
                  IsDate(c) => FieldName(c) \in DOMAIN body.val[i]
            /\ \A k \in DOMAIN body.val[i] :
                  \/ k = FieldName(IndexLabel)
                  \/ \E c \in Range(tbl.columns) : k = FieldName(c)

C5_Witness ==
    /\ stage = "json"
    /\ Len(tbl.index) = 2
    /\ tbl.index[1].t = "Timestamp"
    /\ tbl.index[2].t = "date"
    /\ \E c \in Range(tbl.columns) : c.t = "Timestamp"
    /\ \E c \in Range(tbl.columns) : c.t = "date"

\* C6: after json.loads of the JSON text every row is a mapping whose field
\* names are exactly the table's column labels as text plus the promoted
\* index field, and there is one mapping per row.
C6_RoundTripFields ==
    stage = "parsed" =>
        /\ Len(parsed) = Len(tbl.index)
        /\ \A i \in DOMAIN parsed :
              DOMAIN parsed[i] =
                  {FieldName(c) : c \in Range(tbl.columns)} \cup {FieldName(IndexLabel)}

C6_Witness ==
    /\ stage = "parsed"
    /\ Len(parsed) = 2
    /\ tbl.name = None
    /\ Len(tbl.columns) = 2
    /\ Cardinality(DOMAIN parsed[1]) = 3

====
